---- MODULE Spec2Model ----
(***************************************************************************)
(* A model of pumlpy: the graph space (BaseUMLSpace: refs, objs, register, *)
(* add_item, relation synthesis, to_puml) and the recursive extractor      *)
(* (BaseExtractor) that fills it from reflected Python entities.           *)
(*                                                                         *)
(* Strings are sequences of characters, so that str.startswith, '.' in s   *)
(* and the f-string concatenations of the source are computed, not         *)
(* assumed.  The identifiers of the inspected sample programs are single   *)
(* characters; the fixed module names "builtins" and "types" are kept as   *)
(* one character each, since no prefix test of the source looks inside     *)
(* them.                                                                   *)
(***************************************************************************)
EXTENDS Integers, Sequences, FiniteSets, TLC

VARIABLES
    space,      \* the BaseUMLSpace: [refs, objs, next]
    last,       \* the last call made on the space and how it ended
    handed,     \* every Reference a call on the space has returned so far
    everAdded,  \* the names under which add_item has stored a node so far
    ncalls,     \* number of calls made on the space through its interface
    rendered,   \* what the last to_puml produced
    extractor,  \* the BaseExtractor: configuration, layer, working_domain
    world,      \* the reflected program: raw entity -> what reflection shows
    stack,      \* call stack of the extraction pass
    status      \* "idle", "running", "done" or "error" (with the exception)

vars == <<space, last, handed, everAdded, ncalls, rendered, extractor, world, stack, status>>

----------------------------------------------------------------------------
(* Bounds of the model *)

MaxCalls == 5

MaxAttrs == 2

MaxStack == 7

----------------------------------------------------------------------------
(* Strings *)

EmptyStr == <<>>

Dot == <<".">>

Sep == <<":", ":">>

StartsWith(s, p) == Len(p) <= Len(s) /\ SubSeq(s, 1, Len(p)) = p

Contains(s, c) == \E i \in 1..Len(s) : s[i] = c

RECURSIVE Concat(_)
Concat(seqs) == IF seqs = <<>> THEN <<>> ELSE Head(seqs) \o Concat(Tail(seqs))

NoneVal == [t |-> "None"]

----------------------------------------------------------------------------
(* UML items (src/pumlpy/impl/base.py) *)

PUBLIC == "+"

PROTECTED == "#"

PRIVATE == "-"

INHERITANCE == "--|>"

IMPLEMENTATION == "..|>"

DEPENDENCY == "-->"

BaseUMLObjectRef(id, q) == [t |-> "ref", id |-> id, full_qualname |-> q]

BaseUMLRelation(source, target, relation) ==
    [t |-> "rel", source |-> source, target |-> target, relation |-> relation]

\* an exception raised while a list of items is being produced
Raise(kind) == [t |-> "raise", kind |-> kind]

BaseUMLClass(q, rtype, empty, is_builtin, is_protocol, ancestors, attrs, meths) ==
    LET e == empty \/ is_builtin
        keep == ~e /\ ~is_builtin
        none == [public |-> <<>>, protected |-> <<>>, private |-> <<>>]
    IN  [t |-> "class", rtype |-> rtype, full_qualname |-> q, empty |-> e,
         is_interface |-> (rtype # "any" /\ ~is_builtin /\ is_protocol),
         ancestors |-> IF keep THEN ancestors ELSE <<>>,
         attributes |-> IF keep THEN attrs ELSE none,
         methods |-> IF keep THEN meths ELSE none]

BaseUMLMethod(q, qualname, empty, params, returns) ==
    [t |-> "method", rtype |-> "method", full_qualname |-> q, empty |-> empty,
     is_bounded |-> Contains(qualname, "."),
     params |-> IF empty THEN <<>> ELSE params,
     returns |-> IF empty THEN NoneVal ELSE returns]

BaseUMLGeneric(q, rtype, empty, is_builtin, args) ==
    [t |-> "generic", rtype |-> rtype, full_qualname |-> q, empty |-> empty,
     is_builtin |-> is_builtin, args |-> IF empty THEN <<>> ELSE args]

BaseUMLParam(full_qualname, hint) ==
    [t |-> "param", full_qualname |-> full_qualname, hint |-> hint]

\* the part of a member's name after the last "::"
RECURSIVE AfterSep(_)
AfterSep(s) ==
    IF \E i \in 1..(Len(s) - 1) : SubSeq(s, i, i + 1) = Sep
    THEN AfterSep(SubSeq(s, (CHOOSE i \in 1..(Len(s) - 1) : SubSeq(s, i, i + 1) = Sep) + 2, Len(s)))
    ELSE s

infer_mode(full_qualname) ==
    LET name == AfterSep(full_qualname)
    IN  IF StartsWith(name, <<"_">>)
        THEN IF StartsWith(name, <<"_", "_">>) THEN PRIVATE ELSE PROTECTED
        ELSE PUBLIC

BaseUMLMember(full_qualname, hint) ==
    [t |-> "member", full_qualname |-> full_qualname, hint |-> hint,
     mode |-> infer_mode(full_qualname)]

IsUMLObject(x) == x.t \in {"class", "method", "generic"}

IsRef(x) == x.t = "ref"

----------------------------------------------------------------------------
(* The graph space: BaseUMLSpace *)

\* self.objs is a dict in insertion order; its keys are the nodes' names
Keys(objs) == {objs[i].full_qualname : i \in 1..Len(objs)}

Lookup(objs, q) == objs[CHOOSE i \in 1..Len(objs) : objs[i].full_qualname = q]

\* self.objs[item.full_qualname] = item
DictSet(objs, item) ==
    IF item.full_qualname \in Keys(objs)
    THEN [i \in 1..Len(objs) |->
            IF objs[i].full_qualname = item.full_qualname THEN item ELSE objs[i]]
    ELSE Append(objs, item)

BaseUMLSpace == [refs |-> <<>>, objs |-> <<>>, next |-> 1]

\* key in space
space_contains(sp, key) == key \in DOMAIN sp.refs

\* register without the check of lines 1018-1019
register_unchecked(sp, full_qualname) ==
    LET ref == BaseUMLObjectRef(sp.next, full_qualname)
    IN  [raised |-> "",
         space |-> [sp EXCEPT !.refs = (full_qualname :> ref) @@ @, !.next = @ + 1],
         ret |-> ref]

register(sp, full_qualname) ==
    IF full_qualname \in Keys(sp.objs)
    THEN [raised |-> "KeyError", space |-> sp, ret |-> NoneVal]
    ELSE LET ref == BaseUMLObjectRef(sp.next, full_qualname)
         IN  [raised |-> "",
              space |-> [sp EXCEPT !.refs = (full_qualname :> ref) @@ @,
                                   !.next = @ + 1],
              ret |-> ref]

add_item(sp, item) ==
    IF ~IsUMLObject(item)
    THEN [raised |-> "TypeError", space |-> sp, ret |-> NoneVal]
    ELSE LET stored == [sp EXCEPT !.objs = DictSet(@, item)]
         IN  IF item.full_qualname \notin DOMAIN stored.refs
             THEN register(stored, item.full_qualname)
             ELSE [raised |-> "", space |-> stored,
                   ret |-> stored.refs[item.full_qualname]]

\* a get that answers None where the name has no node
get_unchecked(sp, ref) ==
    IF ref.full_qualname \notin Keys(sp.objs)
    THEN [raised |-> "", ret |-> NoneVal]
    ELSE [raised |-> "", ret |-> Lookup(sp.objs, ref.full_qualname)]

\* BaseUMLObjectRef.get
get(sp, ref) ==
    IF ref.full_qualname \notin Keys(sp.objs)
    THEN [raised |-> "KeyError", ret |-> NoneVal]
    ELSE [raised |-> "", ret |-> Lookup(sp.objs, ref.full_qualname)]

----------------------------------------------------------------------------
(* Relation synthesis.  A list of relations holds Raise(kind) at the place *)
(* where the code raises; what follows it is never produced.               *)

Members(d) == d.public \o d.protected \o d.private

\* the KeyError of a hint that does not resolve leaves relation synthesis
hint_not_found_raises(relations) == <<Raise("KeyError")>>

\* lines 1193-1194: `except KeyError: return relations`
hint_not_found(relations) == relations

RECURSIVE gen_wrapped_rels(_, _, _), gen_method_rels(_, _, _), gen_generic_rels(_, _, _)

\* lines 1116-1147; source is defaulted first (1120-1121), so the check of a
\* bound method's source (1134-1135) never finds it empty
gen_method_rels(objs, obj, source) ==
    IF IsRef(obj) THEN <<Raise("AttributeError")>>
    ELSE
    LET src == IF source = EmptyStr THEN obj.full_qualname ELSE source
        inner == IF ~obj.is_bounded THEN EmptyStr ELSE src
        ps == Concat([i \in 1..Len(obj.params) |->
                        gen_wrapped_rels(objs, obj.params[i], inner)])
        rs == IF obj.returns # NoneVal
              THEN gen_wrapped_rels(objs, obj.returns, inner) ELSE <<>>
    IN  IF obj.is_bounded /\ src = EmptyStr THEN <<Raise("ValueError")>>
        ELSE ps \o rs

gen_generic_rels(objs, obj, source) ==
    IF IsRef(obj) THEN <<Raise("AttributeError")>>
    ELSE
    IF ~obj.is_builtin
    THEN IF source = EmptyStr
         THEN Concat([i \in 1..Len(obj.args) |->
                        gen_wrapped_rels(objs, obj.args[i], obj.full_qualname)])
         ELSE <<BaseUMLRelation(source, obj.full_qualname, DEPENDENCY)>>
    ELSE IF source = EmptyStr
         THEN <<Raise("ValueError")>>
         ELSE Concat([i \in 1..Len(obj.args) |->
                        gen_wrapped_rels(objs, obj.args[i], source)])

gen_wrapped_rels(objs, obj, source) ==
    LET src == IF source = EmptyStr THEN obj.full_qualname ELSE source
    IN  IF IsRef(obj.hint) /\ obj.hint.full_qualname \notin Keys(objs)
        THEN hint_not_found(<<>>)
        ELSE
        LET hint_obj == IF IsRef(obj.hint)
                        THEN Lookup(objs, obj.hint.full_qualname) ELSE obj.hint
            dep == <<BaseUMLRelation(src, obj.hint.full_qualname, DEPENDENCY)>>
        IN  CASE hint_obj.t = "class" -> dep
              [] hint_obj.t = "method" ->
                    IF ~hint_obj.is_bounded THEN dep
                    ELSE gen_method_rels(objs, obj.hint, src)
              [] hint_obj.t = "generic" ->
                    IF hint_obj.is_builtin
                    THEN gen_generic_rels(objs, obj.hint, src)
                    ELSE dep
              [] OTHER -> <<>>

\* every ancestor edge is an Inheritance
rel_type_inheritance(ancestor) == INHERITANCE

\* lines 1066-1069: the kind of the edge to an ancestor
rel_type(ancestor) == IF ancestor.is_interface THEN IMPLEMENTATION ELSE INHERITANCE

\* an edge for every ancestor, resolved or not
gen_ancestor_rels_unresolved(objs, obj) ==
    [i \in 1..Len(obj.ancestors) |->
        BaseUMLRelation(obj.full_qualname, obj.ancestors[i].full_qualname, INHERITANCE)]

\* lines 1055-1076: one edge per ancestor that resolves
gen_ancestor_rels(objs, obj) ==
    Concat([i \in 1..Len(obj.ancestors) |->
        LET a == obj.ancestors[i]
        IN  IF IsRef(a) /\ a.full_qualname \notin Keys(objs) THEN <<>>
            ELSE LET ancestor == IF IsRef(a) THEN Lookup(objs, a.full_qualname) ELSE a
                 IN  IF ancestor.t # "class" THEN <<Raise("AttributeError")>>
                     ELSE <<BaseUMLRelation(obj.full_qualname, ancestor.full_qualname,
                                            rel_type(ancestor))>>])

\* lines 1090-1112: group by target, more than one edge becomes one Dependency
RECURSIVE converge(_, _)
converge(obj, relations) ==
    IF relations = <<>> THEN <<>>
    ELSE LET r == Head(relations)
             same == SelectSeq(relations, LAMBDA x : x.target = r.target)
             rest == SelectSeq(relations, LAMBDA x : x.target # r.target)
         IN  (IF Len(same) > 1
              THEN <<BaseUMLRelation(obj.full_qualname, r.target, DEPENDENCY)>>
              ELSE same) \o converge(obj, rest)

FirstRaise(items) ==
    LET rs == SelectSeq(items, LAMBDA x : x.t = "raise")
    IN  IF rs = <<>> THEN "" ELSE Head(rs).kind

gen_class_rels(objs, obj) ==
    LET relations ==
            gen_ancestor_rels(objs, obj)
            \o Concat([i \in 1..Len(Members(obj.attributes)) |->
                         gen_wrapped_rels(objs, Members(obj.attributes)[i], EmptyStr)])
            \o Concat([i \in 1..Len(Members(obj.methods)) |->
                         gen_wrapped_rels(objs, Members(obj.methods)[i], EmptyStr)])
        new_rels == IF FirstRaise(relations) = ""
                    THEN converge(obj, relations) ELSE <<>>
    IN  relations   \* line 1114 returns relations; new_rels is built and dropped

\* gen_relations, lines 1232-1240: the relations of one node
gen_object_rels(objs, obj) ==
    CASE obj.t = "class" -> gen_class_rels(objs, obj)
      [] obj.t = "method" -> gen_method_rels(objs, obj, EmptyStr)
      [] obj.t = "generic" -> gen_generic_rels(objs, obj, EmptyStr)
      [] OTHER -> <<Raise("TypeError")>>

gen_relations(objs) ==
    Concat([i \in 1..Len(objs) |-> gen_object_rels(objs, objs[i])])

----------------------------------------------------------------------------
(* Rendering.  The text is modelled by its blocks and relation lines; an   *)
(* item's to_puml is modelled by the exceptions it raises, in order.       *)

RECURSIVE param_to_puml(_, _, _)
param_to_puml(objs, p, depth) ==
    IF depth > MaxStack THEN <<Raise("RecursionError")>>
    ELSE
    IF IsRef(p.hint) /\ p.hint.full_qualname \notin Keys(objs)
    THEN <<>>
    ELSE
    LET hint_obj == IF IsRef(p.hint) THEN Lookup(objs, p.hint.full_qualname) ELSE p.hint
    IN  CASE hint_obj.t = "class" -> <<>>
          [] hint_obj.t = "method" ->
                Concat([i \in 1..Len(hint_obj.params) |->
                          param_to_puml(objs, hint_obj.params[i], depth + 1)])
                \o (IF hint_obj.returns = NoneVal THEN <<Raise("AttributeError")>>
                    ELSE param_to_puml(objs, hint_obj.returns, depth + 1))
          [] hint_obj.t = "generic" ->
                Concat([i \in 1..Len(hint_obj.args) |->
                          param_to_puml(objs, hint_obj.args[i], depth + 1)])
                \o (IF hint_obj.args = <<>> THEN <<Raise("UnboundLocalError")>> ELSE <<>>)
          [] OTHER -> <<Raise("UnboundLocalError")>>

object_to_puml(objs, obj) ==
    CASE obj.t = "class" ->
            Concat([i \in 1..Len(Members(obj.attributes)) |->
                      param_to_puml(objs, Members(obj.attributes)[i], 1)])
            \o Concat([i \in 1..Len(Members(obj.methods)) |->
                      param_to_puml(objs, Members(obj.methods)[i], 1)])
      [] obj.t = "method" ->
            Concat([i \in 1..Len(obj.params) |-> param_to_puml(objs, obj.params[i], 1)])
            \o (IF obj.returns = NoneVal THEN <<Raise("AttributeError")>>
                ELSE param_to_puml(objs, obj.returns, 1))
      [] obj.t = "generic" ->
            Concat([i \in 1..Len(obj.args) |-> param_to_puml(objs, obj.args[i], 1)])

Block(obj) ==
    [name |-> obj.full_qualname,
     head |-> CASE obj.t = "class" -> IF obj.is_interface THEN "Interface" ELSE "Class"
                [] obj.t = "method" -> "Method"
                [] obj.t = "generic" -> "Generic"]

NotRendered == [state |-> "none", raised |-> "", blocks |-> <<>>,
                relations |-> <<>>, synthesized |-> <<>>]

\* to_puml without the pruning of line 1276
discard_nothing(objs) == objs

\* line 1276
discard_empty(objs) == SelectSeq(objs, LAMBDA v : ~v.empty)

\* to_puml without the filter of line 1282
keep_relations(objs, relations) == relations

\* line 1282
discard_relations(objs, relations) ==
    SelectSeq(relations, LAMBDA r : r.source \in Keys(objs) /\ r.target \in Keys(objs))

to_puml(sp) ==
    LET objs == discard_empty(sp.objs)
        relations == gen_relations(objs)
        kept == discard_relations(objs, relations)
        items == Concat([i \in 1..Len(objs) |-> object_to_puml(objs, objs[i])])
        raised == IF FirstRaise(relations) # "" THEN FirstRaise(relations)
                  ELSE FirstRaise(items)
    IN  [space |-> [sp EXCEPT !.objs = objs],
         out |-> IF raised # ""
                 THEN [NotRendered EXCEPT !.state = "error", !.raised = raised]
                 ELSE [state |-> "ok", raised |-> "",
                       blocks |-> [i \in 1..Len(objs) |-> Block(objs[i])],
                       relations |-> kept, synthesized |-> relations]]

----------------------------------------------------------------------------
(* Reflection: what the Python runtime shows of a raw entity.  A raw       *)
(* entity is a record; a field is present exactly when the Python object   *)
(* has the attribute (module, qualname, name, args, constraints, bound,    *)
(* parameters, forward_arg, ann for __annotations__, bases, dir).          *)

Builtins == <<"builtins">>

Has(r, attr) == attr \in DOMAIN r

\* the checks of rtypes.check_raw_type, lines 81-118
IsGeneric(r) == Has(r, "args") /\ (Has(r, "name") \/ r.py = "union")

IsTypeVar(r) ==
    \/ Has(r, "constraints") /\ r.constraints # <<>>
    \/ Has(r, "parameters") /\ r.parameters # <<>>
    \/ Has(r, "bound") /\ r.bound # NoneVal

IsAny(r) == Has(r, "name") /\ r.name \in {<<"A", "n", "y">>, <<"a", "n", "y">>}

\* the type variable check is made before the generic check
check_raw_type_typevar_first(r) ==
    IF r.py = "type" THEN "class"
    ELSE IF r.py \in {"function", "method"} THEN "method"
    ELSE IF r.py = "module" THEN "module"
    ELSE IF IsTypeVar(r) THEN "typevar"
    ELSE IF IsGeneric(r) THEN (IF Has(r, "name") THEN "named_generic" ELSE "types_union")
    ELSE IF Has(r, "forward_arg") THEN "forward"
    ELSE IF r.py = "NoneType" THEN "none"
    ELSE IF IsAny(r) THEN "any"
    ELSE ""

\* rtypes.check_raw_type; "" stands for the ValueError of line 120
check_raw_type(r) ==
    IF r.py = "type" THEN "class"
    ELSE IF r.py \in {"function", "method"} THEN "method"
    ELSE IF r.py = "module" THEN "module"
    ELSE IF IsGeneric(r) THEN (IF Has(r, "name") THEN "named_generic" ELSE "types_union")
    ELSE IF IsTypeVar(r) THEN "typevar"
    ELSE IF Has(r, "forward_arg") THEN "forward"
    ELSE IF r.py = "NoneType" THEN "none"
    ELSE IF IsAny(r) THEN "any"
    ELSE ""

\* rtypes.get_full_qualname
get_full_qualname(r, rtype) ==
    CASE rtype = "module" -> r.name
      [] rtype \in {"class", "method"} -> r.module \o Dot \o r.qualname
      [] rtype \in {"named_generic", "typevar"} -> r.module \o Dot \o r.name
      [] rtype = "types_union" -> <<"types">> \o Dot \o <<"U", "n", "i", "o", "n">>
      [] rtype = "none" -> Builtins \o Dot \o <<"N", "o", "n", "e">>
      [] rtype = "any" -> Builtins \o Dot \o <<"a", "n", "y">>

\* utils.check_builtins is not among the source files: an entity is taken
\* to be built-in when its __module__ is "builtins"
check_builtins(r) == Has(r, "module") /\ r.module = Builtins

IsDunder(name) ==
    /\ StartsWith(name, <<"_", "_">>)
    /\ Len(name) >= 2 /\ SubSeq(name, Len(name) - 1, Len(name)) = <<"_", "_">>

\* importlib.import_module(name): the raw module of that name, if any
ModulesNamed(w, name) == {m \in DOMAIN w : w[m].py = "module" /\ w[m].name = name}

\* getattr(pkg, name) over the module's attributes
AttrsNamed(pkg, name) == {i \in 1..Len(pkg.dir) : pkg.dir[i].name = name}

----------------------------------------------------------------------------
(* The extractor: BaseExtractor.  Every inspect_* call is a frame of the   *)
(* stack; a frame's pc is the loop it is in and i the loop's position.     *)

\* limit_fqn.split("::")[0]: what stands before the first "::"
BeforeSep(s) ==
    LET at == {i \in 1..(Len(s) - 1) : SubSeq(s, i, i + 1) = Sep}
    IN  IF at = {} THEN s
        ELSE SubSeq(s, 1, (CHOOSE i \in at : \A j \in at : i <= j) - 1)

\* the fields of a constructed extractor, lines 187-199
BaseExtractor(domain, limit_fqn, max_depth, include_extern) ==
    [domain |-> domain, limit_fqn |-> BeforeSep(limit_fqn), max_depth |-> max_depth,
     include_extern |-> include_extern, layer |-> 0, working_domain |-> domain]

\* a constructor that accepts every limit_fqn
accept_limit_fqn(domain, limit_fqn) == ""

\* lines 190-196: the exception the constructor raises for limit_fqn, "" if none
check_limit_fqn(domain, limit_fqn) ==
    IF limit_fqn # EmptyStr /\ ~StartsWith(BeforeSep(limit_fqn), domain)
    THEN "ValueError" ELSE ""

\* BaseExtractor.__init__: the exception raised and the extractor built
BaseExtractor_init(domain, limit_fqn, max_depth, include_extern) ==
    [raised |-> check_limit_fqn(domain, limit_fqn),
     ret |-> IF check_limit_fqn(domain, limit_fqn) = ""
             THEN BaseExtractor(domain, limit_fqn, max_depth, include_extern)
             ELSE NoneVal]

PackageFrame(raw) ==
    [fn |-> "inspect_package", raw |-> raw, pc |-> "start", i |-> 1,
     source_domain |-> EmptyStr]

ClassFrame(raw, rtype, next_layer) ==
    [fn |-> "inspect_class", raw |-> raw, rtype |-> rtype, next_layer |-> next_layer,
     pc |-> "entry", i |-> 1, source_domain |-> EmptyStr, full_qualname |-> EmptyStr,
     add_to_space |-> TRUE, ref |-> NoneVal, empty |-> FALSE,
     ancestors |-> <<>>, attrs |-> <<>>, meths |-> <<>>]

MethodFrame(raw, next_layer) ==
    [fn |-> "inspect_method", raw |-> raw, rtype |-> "method", next_layer |-> next_layer,
     pc |-> "entry", i |-> 1, source_domain |-> EmptyStr, full_qualname |-> EmptyStr,
     add_to_space |-> TRUE, ref |-> NoneVal, empty |-> FALSE,
     params |-> <<>>, returns |-> NoneVal]

GenericFrame(raw, rtype, next_layer) ==
    [fn |-> "inspect_generic", raw |-> raw, rtype |-> rtype, next_layer |-> next_layer,
     pc |-> "entry", i |-> 1, full_qualname |-> EmptyStr,
     add_to_space |-> FALSE, ref |-> NoneVal, empty |-> FALSE,
     args |-> <<>>, uml_args |-> <<>>]

\* what a call made by a frame comes to: a callee frame, a value, an exception
Call(frame) == [k |-> "call", frame |-> frame]

Value(v) == [k |-> "value", v |-> v]

Throw(kind) == [k |-> "raise", kind |-> kind]

\* BaseExtractor.extract, lines 225-254 (raw is the entity's record)
RECURSIVE extract(_, _, _, _, _)
extract(w, ext, raw, rtype, next_layer) ==
    CASE rtype \in {"class", "any"} -> Call(ClassFrame(raw, rtype, next_layer))
      [] rtype = "method" -> Call(MethodFrame(raw, next_layer))
      [] rtype \in {"named_generic", "types_union"} ->
            Call(GenericFrame(raw, rtype, next_layer))
      [] rtype = "forward" ->
            IF ModulesNamed(w, ext.working_domain) = {} THEN Throw("ImportError")
            ELSE LET pkg == w[CHOOSE m \in ModulesNamed(w, ext.working_domain) : TRUE]
                 IN  IF AttrsNamed(pkg, raw.forward_arg) = {} THEN Throw("AttributeError")
                     ELSE LET found == w[pkg.dir[CHOOSE i \in AttrsNamed(pkg, raw.forward_arg) : TRUE].obj]
                          IN  IF check_raw_type(found) = "" THEN Throw("ValueError")
                              ELSE extract(w, ext, found, check_raw_type(found), next_layer)
      [] rtype = "none" ->
            Value(BaseUMLClass(get_full_qualname(raw, "none"), "none", TRUE, TRUE, FALSE,
                               <<>>, <<>>, <<>>))
      [] rtype = "module" -> Throw("TypeError")
      [] OTHER -> Throw("ValueError")

\* ForwardRef(obj) for an annotation that is a string
ForwardRef(r) == [py |-> "ForwardRef", forward_arg |-> r.value]

----------------------------------------------------------------------------
(* The machine an extraction step works on: [space, extractor, stack,      *)
(* status].  A step takes the top frame one call, loop turn or return      *)
(* further.                                                                *)

Top(stk) == stk[Len(stk)]

Pop(stk) == SubSeq(stk, 1, Len(stk) - 1)

SetTop(m, frame) == [m EXCEPT !.stack = Append(Pop(m.stack), frame)]

Running == [state |-> "running", raised |-> "", at |-> ""]

\* an exception leaves the pass: nothing catches it
Raised(m, kind) ==
    [m EXCEPT !.status = [state |-> "error", raised |-> kind, at |-> Top(m.stack).fn],
              !.stack = <<>>]

IdxStr(i) == << <<"0", "1", "2", "3", "4", "5">>[i] >>

\* name.replace(old, "")
RECURSIVE Remove(_, _)
Remove(s, old) ==
    IF Len(s) < Len(old) \/ old = <<>> THEN s
    ELSE IF SubSeq(s, 1, Len(old)) = old THEN Remove(SubSeq(s, Len(old) + 1, Len(s)), old)
    ELSE <<Head(s)>> \o Remove(Tail(s), old)

IsSubstring(sub, s) == \E i \in 1..(Len(s) - Len(sub) + 1) : SubSeq(s, i, i + Len(sub) - 1) = sub

\* lines 613-616
method_name(raw, name) ==
    IF IsSubstring(raw.name, name) THEN Remove(name, <<"_">> \o raw.name) ELSE name

\* the caller's loop does not move on to its next item
Deliver_again(w, frame, v) == frame

\* the caller's frame once the call it made has returned v
Deliver(w, frame, v) ==
    CASE frame.fn = "inspect_package" -> [frame EXCEPT !.i = @ + 1]
      [] frame.fn = "inspect_class" /\ frame.pc = "bases" ->
            [frame EXCEPT !.ancestors = Append(@, v), !.i = @ + 1]
      [] frame.fn = "inspect_class" /\ frame.pc = "attrs" ->
            [frame EXCEPT
                !.attrs = Append(@, BaseUMLMember(
                    frame.full_qualname \o Sep \o frame.raw.ann[frame.i].name, v)),
                !.i = @ + 1]
      [] frame.fn = "inspect_class" /\ frame.pc = "methods" ->
            [frame EXCEPT
                !.meths = Append(@, BaseUMLMember(
                    frame.full_qualname \o Sep
                        \o method_name(frame.raw, frame.raw.dir[frame.i].name), v)),
                !.i = @ + 1]
      [] frame.fn = "inspect_method" ->
            LET name == frame.raw.ann[frame.i].name
                param == BaseUMLParam(frame.full_qualname \o Sep \o name, v)
            IN  IF name # <<"r", "e", "t", "u", "r", "n">>
                THEN [frame EXCEPT !.params = Append(@, param), !.i = @ + 1]
                ELSE [frame EXCEPT !.returns = param, !.i = @ + 1]
      [] frame.fn = "inspect_generic" ->
            [frame EXCEPT
                !.uml_args = Append(@, BaseUMLParam(
                    frame.full_qualname \o Sep \o IdxStr(frame.i), v)),
                !.i = @ + 1]

\* the top frame returns v to its caller
Return(w, m, v) ==
    LET rest == Pop(m.stack)
    IN  IF rest = <<>>
        THEN [m EXCEPT !.stack = <<>>, !.status = [Running EXCEPT !.state = "done"]]
        ELSE [m EXCEPT !.stack = Append(Pop(rest), Deliver(w, Top(rest), v))]

\* the top frame makes a call that comes to `outcome`
Invoke(w, m, outcome) ==
    CASE outcome.k = "raise" -> Raised(m, outcome.kind)
      [] outcome.k = "value" -> SetTop(m, Deliver(w, Top(m.stack), outcome.v))
      [] outcome.k = "call" ->
            IF Len(m.stack) >= MaxStack THEN Raised(m, "RecursionError")
            ELSE [m EXCEPT !.stack = Append(@, outcome.frame)]

\* register is called whether or not the name has a Reference
always_register(sp, full_qualname) == register(sp, full_qualname)

\* lines 393-399, 687-693, 814-820: reuse the registered reference or register
lookup_or_register(sp, full_qualname) ==
    IF space_contains(sp, full_qualname)
    THEN [raised |-> "", space |-> sp, ret |-> sp.refs[full_qualname]]
    ELSE register(sp, full_qualname)

OutOfDomain(ext, raw) ==
    ~StartsWith(raw.module, ext.domain) /\ ~ext.include_extern

SplitModes(members) ==
    [public |-> SelectSeq(members, LAMBDA x : x.mode = PUBLIC),
     protected |-> SelectSeq(members, LAMBDA x : x.mode = PROTECTED),
     private |-> SelectSeq(members, LAMBDA x : x.mode = PRIVATE)]

\* every class and method is expanded where it is met, whatever next_layer says
ReturnsRefNever(add_to_space, next_layer) == FALSE

\* inspect_class, lines 393-405, inspect_method, lines 687-699: an entity met as
\* a hint or a base comes back as its Reference and is not expanded
ReturnsRef(add_to_space, next_layer) == add_to_space /\ next_layer

\* a placeholder is stored like any other node
should_add_placeholder(item, add_to_space) == add_to_space

\* lines 416, 710, 833: the node is stored unless it is a placeholder
should_add(item, add_to_space) == ~item.empty /\ add_to_space

\* inspect_class, lines 376-411: up to the decision to expand
inspect_class_entry(w, m) ==
    LET f == Top(m.stack)
        ext == m.extractor
        add_to_space == ~check_builtins(f.raw)
    IN  IF f.rtype = "any"
        THEN Return(w, m, BaseUMLClass(get_full_qualname(f.raw, "any"), "any", TRUE,
                                       check_builtins(f.raw), FALSE, <<>>, <<>>, <<>>))
        ELSE
        LET full_qualname == get_full_qualname(f.raw, f.rtype)
            reg == IF add_to_space THEN lookup_or_register(m.space, full_qualname)
                   ELSE [raised |-> "", space |-> m.space, ret |-> NoneVal]
            m1 == [m EXCEPT !.space = reg.space,
                            !.extractor.working_domain = f.raw.module]
        IN  IF reg.raised # "" THEN Raised(m1, reg.raised)
            ELSE IF ReturnsRef(add_to_space, f.next_layer)
            THEN Return(w, [m1 EXCEPT !.extractor.working_domain = ext.working_domain],
                        reg.ret)
            ELSE SetTop(m1, [f EXCEPT
                    !.source_domain = ext.working_domain,
                    !.full_qualname = full_qualname,
                    !.add_to_space = add_to_space,
                    !.ref = reg.ret,
                    !.empty = OutOfDomain(ext, f.raw),
                    !.pc = IF OutOfDomain(ext, f.raw) THEN "finish" ELSE "bases"])

\* __extract_class_bases, lines 487-508
extract_class_bases(w, m) ==
    LET f == Top(m.stack)
    IN  IF f.i > Len(f.raw.bases) THEN SetTop(m, [f EXCEPT !.pc = "attrs", !.i = 1])
        ELSE LET base == w[f.raw.bases[f.i]]
             IN  IF check_builtins(base) THEN SetTop(m, [f EXCEPT !.i = @ + 1])
                 ELSE IF check_raw_type(base) = "" THEN Raised(m, "ValueError")
                 ELSE Invoke(w, m, Call(ClassFrame(base, check_raw_type(base), TRUE)))

\* __extract_class_attrs, lines 531-564
extract_class_attrs(w, m) ==
    LET f == Top(m.stack)
    IN  IF ~Has(f.raw, "ann") THEN Raised(m, "AttributeError")
        ELSE IF f.i > Len(f.raw.ann) THEN SetTop(m, [f EXCEPT !.pc = "methods", !.i = 1])
        ELSE LET o == w[f.raw.ann[f.i].hint]
                 obj == IF o.py = "str" THEN ForwardRef(o) ELSE o
                 rtype == IF o.py = "str" THEN "forward" ELSE check_raw_type(o)
             IN  IF rtype = "" THEN Raised(m, "ValueError")
                 ELSE Invoke(w, m, extract(w, m.extractor, obj, rtype, TRUE))

Callable(r) ==
    r.py \in {"type", "function", "method", "builtin_function_or_method",
              "method_descriptor"}

\* __extract_class_methods, lines 591-634
extract_class_methods(w, m) ==
    LET f == Top(m.stack)
    IN  IF f.i > Len(f.raw.dir) THEN SetTop(m, [f EXCEPT !.pc = "finish", !.i = 1])
        ELSE LET d == f.raw.dir[f.i]
                 obj == w[d.obj]
             IN  IF ~Callable(obj) \/ IsDunder(d.name) THEN SetTop(m, [f EXCEPT !.i = @ + 1])
                 ELSE Invoke(w, m, Call(MethodFrame(obj, TRUE)))

\* __extract_class lines 455-472 and inspect_class lines 416-423
inspect_class_finish(w, m) ==
    LET f == Top(m.stack)
        uml_class == BaseUMLClass(f.full_qualname, "class", f.empty,
                        check_builtins(f.raw),
                        Has(f.raw, "is_protocol") /\ f.raw.is_protocol,
                        f.ancestors, SplitModes(f.attrs), SplitModes(f.meths))
        added == IF should_add(uml_class, f.add_to_space) THEN add_item(m.space, uml_class)
                 ELSE [raised |-> "", space |-> m.space, ret |-> NoneVal]
        m1 == [m EXCEPT !.space = added.space]
    IN  IF added.raised # "" THEN Raised(m1, added.raised)
        ELSE Return(w, [m1 EXCEPT !.extractor.working_domain = f.source_domain],
                    IF f.add_to_space THEN f.ref ELSE uml_class)

\* a callable is registered whether or not it is a member of a class
method_add_to_space_always(raw) == TRUE

\* inspect_method, lines 679-682: a callable with a "." in its __qualname__ is a
\* member of a class and is neither registered nor stored
method_add_to_space(raw) == ~Contains(raw.qualname, ".")

\* inspect_method, lines 666-705
inspect_method_entry(w, m) ==
    LET f == Top(m.stack)
        ext == m.extractor
    IN  IF f.raw.py \notin {"function", "method"} THEN Raised(m, "TypeError")
        ELSE IF check_builtins(f.raw) THEN Raised(m, "ValueError")
        ELSE
        LET add_to_space == method_add_to_space(f.raw)
            full_qualname == get_full_qualname(f.raw, f.rtype)
            reg == IF add_to_space THEN lookup_or_register(m.space, full_qualname)
                   ELSE [raised |-> "", space |-> m.space, ret |-> NoneVal]
            m1 == [m EXCEPT !.space = reg.space,
                            !.extractor.working_domain = f.raw.module]
        IN  IF reg.raised # "" THEN Raised(m1, reg.raised)
            ELSE IF ReturnsRef(add_to_space, f.next_layer)
            THEN Return(w, [m1 EXCEPT !.extractor.working_domain = ext.working_domain],
                        reg.ret)
            ELSE SetTop(m1, [f EXCEPT
                    !.source_domain = ext.working_domain,
                    !.full_qualname = full_qualname,
                    !.add_to_space = add_to_space,
                    !.ref = reg.ret,
                    !.empty = OutOfDomain(ext, f.raw),
                    !.pc = IF OutOfDomain(ext, f.raw) THEN "finish" ELSE "params"])

\* __extract_method, lines 747-774
extract_method(w, m) ==
    LET f == Top(m.stack)
    IN  IF f.i > Len(f.raw.ann) THEN SetTop(m, [f EXCEPT !.pc = "finish", !.i = 1])
        ELSE LET obj == w[f.raw.ann[f.i].hint]
                 rtype == check_raw_type(obj)
             IN  IF rtype = "" THEN Raised(m, "ValueError")
                 ELSE IF rtype = "method" /\ check_builtins(obj) THEN Raised(m, "ValueError")
                 ELSE Invoke(w, m, extract(w, m.extractor, obj, rtype, TRUE))

\* __extract_method lines 743-745, 776-781 and inspect_method lines 710-717
inspect_method_finish(w, m) ==
    LET f == Top(m.stack)
        uml_method == BaseUMLMethod(f.full_qualname, f.raw.qualname, f.empty,
                                    f.params, f.returns)
        added == IF should_add(uml_method, f.add_to_space) THEN add_item(m.space, uml_method)
                 ELSE [raised |-> "", space |-> m.space, ret |-> NoneVal]
        m1 == [m EXCEPT !.space = added.space]
    IN  IF added.raised # "" THEN Raised(m1, added.raised)
        ELSE Return(w, [m1 EXCEPT !.extractor.working_domain = f.source_domain],
                    IF f.add_to_space THEN f.ref ELSE uml_method)

\* the rtypes BaseUMLObject.template_maps has a template for (lines 187-194)
template_maps == {"class", "any", "none", "method", "named_generic", "types_union"}

\* __extract_generic lines 870-887: the arguments the loop runs over
generic_args(raw) ==
    IF Has(raw, "args") /\ raw.args # <<>> THEN [raised |-> "", args |-> raw.args]
    ELSE IF Has(raw, "constraints") /\ raw.constraints # <<>>
    THEN [raised |-> "", args |-> raw.constraints]
    ELSE IF Has(raw, "bound") /\ raw.bound # NoneVal
    THEN [raised |-> "TypeError", args |-> <<>>]      \* a bound is not iterable
    ELSE IF Has(raw, "parameters") THEN [raised |-> "NotImplementedError", args |-> <<>>]
    ELSE [raised |-> "ValueError", args |-> <<>>]

\* inspect_generic, lines 806-828, and the head of __extract_generic
inspect_generic_entry(w, m) ==
    LET f == Top(m.stack)
        ext == m.extractor
        add_to_space == f.rtype = "typevar"
        full_qualname == get_full_qualname(f.raw, f.rtype)
        reg == IF add_to_space THEN lookup_or_register(m.space, full_qualname)
               ELSE [raised |-> "", space |-> m.space, ret |-> NoneVal]
        m1 == [m EXCEPT !.space = reg.space]
        empty == add_to_space /\ OutOfDomain(ext, f.raw)
        ga == generic_args(f.raw)
    IN  IF reg.raised # "" THEN Raised(m1, reg.raised)
        ELSE IF add_to_space /\ f.next_layer THEN Return(w, m1, reg.ret)
        ELSE IF ~empty /\ ga.raised # "" THEN Raised(m1, ga.raised)
        ELSE SetTop(m1, [f EXCEPT
                !.full_qualname = full_qualname,
                !.add_to_space = add_to_space,
                !.ref = reg.ret,
                !.empty = empty,
                !.args = IF empty THEN <<>> ELSE ga.args,
                !.pc = IF empty THEN "finish" ELSE "args"])

\* __extract_generic, lines 889-905
extract_generic(w, m) ==
    LET f == Top(m.stack)
    IN  IF f.i > Len(f.args) THEN SetTop(m, [f EXCEPT !.pc = "finish"])
        ELSE LET o == w[f.args[f.i]]
                 obj == IF o.py = "str" THEN ForwardRef(o) ELSE o
                 raw_type == check_raw_type(obj)
             IN  IF raw_type = "" THEN Raised(m, "ValueError")
                 ELSE Invoke(w, m, extract(w, m.extractor, obj, raw_type, TRUE))

\* __extract_generic lines 866-868, 907 and inspect_generic lines 833-837
inspect_generic_finish(w, m) ==
    LET f == Top(m.stack)
        uml_generic == BaseUMLGeneric(f.full_qualname, f.rtype, f.empty,
                                      check_builtins(f.raw), f.uml_args)
        added == IF should_add(uml_generic, f.add_to_space)
                 THEN add_item(m.space, uml_generic)
                 ELSE [raised |-> "", space |-> m.space, ret |-> NoneVal]
        m1 == [m EXCEPT !.space = added.space]
    IN  IF f.rtype \notin template_maps THEN Raised(m, "KeyError")
        ELSE IF added.raised # "" THEN Raised(m1, added.raised)
        ELSE Return(w, m1, IF f.add_to_space THEN f.ref ELSE uml_generic)

\* inspect_package, lines 272-351
inspect_package(w, m) ==
    LET f == Top(m.stack)
        ext == m.extractor
        names == {f.raw.consts[k].name : k \in 1..Len(f.raw.consts)}
    IN  CASE f.pc = "start" ->
              SetTop([m EXCEPT !.extractor.working_domain = f.raw.name],
                     [f EXCEPT !.source_domain = ext.working_domain, !.pc = "consts"])
          [] f.pc = "consts" ->
              IF f.i > Len(f.raw.consts) THEN SetTop(m, [f EXCEPT !.pc = "dirs", !.i = 1])
              ELSE LET raw == w[f.raw.consts[f.i].hint]
                       rtype == check_raw_type(raw)
                   IN  IF rtype = "" THEN Raised(m, "ValueError")
                       ELSE Invoke(w, m, extract(w, ext, raw, rtype, FALSE))
          [] f.pc = "dirs" ->
              IF f.i > Len(f.raw.dir) THEN SetTop(m, [f EXCEPT !.pc = "end"])
              ELSE
              LET d == f.raw.dir[f.i]
                  raw == w[d.obj]
                  rtype == check_raw_type(raw)
                  skip == SetTop(m, [f EXCEPT !.i = @ + 1])
                  full_qualname == ext.working_domain \o Dot \o d.name
              IN  IF d.name \in names \/ IsDunder(d.name) \/ check_builtins(raw) THEN skip
                  ELSE IF rtype = "" THEN Raised(m, "ValueError")
                  ELSE IF ~ext.include_extern /\ rtype = "module"
                          /\ ~StartsWith(raw.name, ext.domain) THEN skip
                  ELSE IF ~ext.include_extern /\ rtype # "module" /\ ~Has(raw, "module")
                  THEN Raised(m, "AttributeError")
                  ELSE IF ~ext.include_extern /\ rtype # "module"
                          /\ ~StartsWith(raw.module, ext.domain) THEN skip
                  ELSE IF ext.limit_fqn # EmptyStr /\ ~StartsWith(full_qualname, ext.limit_fqn)
                  THEN skip
                  ELSE CASE rtype = "class" -> Invoke(w, m, Call(ClassFrame(raw, rtype, FALSE)))
                         [] rtype = "method" -> Invoke(w, m, Call(MethodFrame(raw, FALSE)))
                         [] rtype \in {"named_generic", "types_union"} ->
                               Invoke(w, m, Call(GenericFrame(raw, rtype, FALSE)))
                         [] rtype = "module" ->
                               Invoke(w, [m EXCEPT !.extractor.layer = @ + 1],
                                      Call(PackageFrame(raw)))
                         [] OTHER -> skip
          [] f.pc = "end" ->
              LET back == [m EXCEPT !.extractor.working_domain = f.source_domain,
                                    !.extractor.layer =
                                        IF Len(m.stack) > 1 THEN @ - 1 ELSE @]
              IN  Return(w, back, NoneVal)

----------------------------------------------------------------------------
(* The sample programs: a root package p with classes A and B, an external *)
(* class E of package q imported into p, a method A.m and a function f.    *)

P == <<"p">>

Q == <<"q">>

AttrName(i) == << <<"x">>, <<"_", "y">>, <<"_", "_", "z">>, <<"u">>, <<"v">> >>[i]

ReturnName == <<"r", "e", "t", "u", "r", "n">>

\* annotations: every list of at most MaxAttrs hints, named by position
RECURSIVE HintLists(_, _)
HintLists(hints, n) ==
    IF n = 0 THEN {<<>>}
    ELSE HintLists(hints, n - 1)
         \cup {Append(l, h) : l \in {x \in HintLists(hints, n - 1) : Len(x) = n - 1},
                              h \in hints}

Annotations(l) == [i \in 1..Len(l) |-> [name |-> AttrName(i), hint |-> l[i]]]

\* A.m and f: absent, or present with one of these annotations
SigBB == << [name |-> <<"x">>, hint |-> "B"], [name |-> ReturnName, hint |-> "B"] >>

SigListB == << [name |-> <<"x">>, hint |-> "list[B]"], [name |-> <<"y">>, hint |-> "B"],
               [name |-> ReturnName, hint |-> "None"] >>

Absent == [has |-> FALSE, sig |-> <<>>]

Present(sig) == [has |-> TRUE, sig |-> sig]

Class(module, name, bases, ann, dir) ==
    [py |-> "type", module |-> module, qualname |-> name, name |-> name,
     bases |-> bases, ann |-> ann, dir |-> dir, is_protocol |-> FALSE]

Function(module, qualname, name, ann) ==
    [py |-> "function", module |-> module, qualname |-> qualname, name |-> name,
     ann |-> ann]

MkWorld(annA, annB, basesB, m, f) ==
    LET dm == <<[name |-> <<"m">>, obj |-> "A.m"]>>
        dirA == IF m.has THEN dm ELSE <<>>
        dirB == IF m.has /\ basesB = <<"A">> THEN dm ELSE <<>>
        dirP == << [name |-> <<"A">>, obj |-> "A"], [name |-> <<"B">>, obj |-> "B"],
                   [name |-> <<"E">>, obj |-> "E"] >>
                \o (IF f.has THEN <<[name |-> <<"f">>, obj |-> "f"]>> ELSE <<>>)
    IN  [x \in {"p", "q", "A", "B", "E", "object", "A.m", "f", "'A'", "list[B]", "None"} |->
            CASE x = "p" -> [py |-> "module", name |-> P, consts |-> <<>>, dir |-> dirP]
              [] x = "q" -> [py |-> "module", name |-> Q, consts |-> <<>>,
                             dir |-> <<[name |-> <<"E">>, obj |-> "E"]>>]
              [] x = "A" -> Class(P, <<"A">>, <<"object">>, annA, dirA)
              [] x = "B" -> Class(P, <<"B">>, basesB, annB, dirB)
              [] x = "E" -> Class(Q, <<"E">>, <<"object">>, <<>>, <<>>)
              [] x = "object" -> [py |-> "type", module |-> Builtins,
                                  qualname |-> <<"object">>, name |-> <<"object">>,
                                  bases |-> <<>>, dir |-> <<>>]
              [] x = "A.m" -> Function(P, <<"A", ".", "m">>, <<"m">>, m.sig)
              [] x = "f" -> Function(P, <<"f">>, <<"f">>, f.sig)
              [] x = "'A'" -> [py |-> "str", value |-> <<"A">>]
              [] x = "list[B]" -> [py |-> "GenericAlias", module |-> Builtins,
                                   name |-> <<"list">>, args |-> <<"B">>]
              [] x = "None" -> [py |-> "NoneType"]]

ClassWorlds ==
    { MkWorld(Annotations(la), Annotations(lb), basesB, m, f) :
        la \in HintLists({"B", "E", "'A'"}, MaxAttrs),
        lb \in HintLists({"A"}, 1),
        basesB \in {<<"object">>, <<"A">>, <<"E">>},
        m \in {Absent, Present(SigBB), Present(SigListB)},
        f \in {Absent, Present(SigBB), Present(<<>>)} }

\* the default of max_depth
DefaultMaxDepth == 3

\* class A(Protocol), with `from typing import Protocol`: A's only base is
\* typing.Protocol, whose base is typing.Generic, and _is_protocol is set on both
Typing == <<"typing">>

Protocolled(w) ==
    ("Protocol" :> [Class(Typing, <<"Protocol">>, <<"Generic">>, <<>>, <<>>)
                       EXCEPT !.is_protocol = TRUE])
    @@ ("Generic" :> Class(Typing, <<"Generic">>, <<"object">>, <<>>, <<>>))
    @@ [w EXCEPT !["A"].bases = <<"Protocol">>, !["A"].is_protocol = TRUE,
                 !["p"].dir = @ \o <<[name |-> <<"Protocol">>, obj |-> "Protocol"]>>]

ProtocolWorlds ==
    { Protocolled(MkWorld(<<>>, <<>>, basesB, m, Absent)) :
        basesB \in {<<"object">>, <<"A">>},
        m \in {Absent, Present(SigBB)} }

(* Aliases of the root package p that name themselves in a string argument: *)
(* Tree = list['Tree'], and Forest = list['Grove'] with Grove =             *)
(* list['Forest'].  Class A has one attribute, hinted by an alias.          *)
Entry(name, obj) == <<[name |-> name, obj |-> obj]>>

Alias(arg) == [py |-> "GenericAlias", module |-> Builtins, name |-> <<"list">>,
               args |-> <<arg>>]

Str(value) == [py |-> "str", value |-> value]

AliasNames == [Tree |-> <<"T", "r", "e", "e">>, Forest |-> <<"F", "o", "r", "e", "s", "t">>,
               Grove |-> <<"G", "r", "o", "v", "e">>]

Aliased(w, hint) ==
    ("Tree" :> Alias("'Tree'")) @@ ("'Tree'" :> Str(AliasNames.Tree))
    @@ ("Forest" :> Alias("'Grove'")) @@ ("'Forest'" :> Str(AliasNames.Forest))
    @@ ("Grove" :> Alias("'Forest'")) @@ ("'Grove'" :> Str(AliasNames.Grove))
    @@ [w EXCEPT !["A"].ann = <<[name |-> <<"x">>, hint |-> hint]>>,
                 !["p"].dir = @ \o Entry(AliasNames.Forest, "Forest")
                                \o Entry(AliasNames.Grove, "Grove")
                                \o Entry(AliasNames.Tree, "Tree")]

AliasWorlds ==
    { Aliased(MkWorld(<<>>, <<>>, <<"object">>, Absent, Absent), hint) :
        hint \in {"Tree", "Forest", "list[B]"} }

(* A type variable T = TypeVar('T', A, B) of the root package p, met as a   *)
(* member of p only, or also as the hint of A.x, as the argument of A.x's   *)
(* hint list[T], or as the hint of f's parameter.                           *)
TypeVar(module, name, constraints) ==
    [py |-> "TypeVar", module |-> module, name |-> name,
     constraints |-> constraints, bound |-> NoneVal]

Places == {"member", "attr", "arg", "param"}

WithTypeVar(place) ==
    LET f == IF place = "param" THEN Present(<<[name |-> <<"x">>, hint |-> "T"]>>)
             ELSE Absent
        w == MkWorld(<<>>, <<>>, <<"object">>, Absent, f)
        annA == CASE place = "attr" -> <<[name |-> <<"x">>, hint |-> "T"]>>
                  [] place = "arg" -> <<[name |-> <<"x">>, hint |-> "list[T]"]>>
                  [] OTHER -> <<>>
    IN  ("T" :> TypeVar(P, <<"T">>, <<"A", "B">>))
        @@ ("list[T]" :> Alias("T"))
        @@ [w EXCEPT !["A"].ann = annA,
                     !["p"].dir = SubSeq(@, 1, 3) \o Entry(<<"T">>, "T")
                                    \o SubSeq(@, 4, Len(@))]

TypeVarWorlds == { WithTypeVar(place) : place \in Places }

(* A method A.m that has a parameter and no return annotation *)
SigB == << [name |-> <<"x">>, hint |-> "B"] >>

NoReturnWorlds == { MkWorld(<<>>, <<>>, basesB, Present(SigB), Absent) :
                      basesB \in {<<"object">>, <<"A">>} }

(* Members from outside the root package: A(Exception) inherits the        *)
(* built-in method with_traceback; A has the member m = len; B(E) inherits  *)
(* the method m of the class E of package q; p has the constant x: E.       *)
WithTraceback == <<"w", "i", "t", "h", "_", "t", "r", "a", "c", "e", "b", "a", "c", "k">>

ExceptionName == <<"E", "x", "c", "e", "p", "t", "i", "o", "n">>

Outsiders == {"inherited", "member", "extern", "const"}

WithOutsider(kind) ==
    LET w == MkWorld(<<>>, <<>>, IF kind = "extern" THEN <<"E">> ELSE <<"object">>,
                     Absent, Absent)
        inherited == Entry(WithTraceback, "with_traceback")
        m == Entry(<<"m">>, IF kind = "member" THEN "len" ELSE "E.m")
    IN  ("Exception" :> [py |-> "type", module |-> Builtins, qualname |-> ExceptionName,
                         name |-> ExceptionName, bases |-> <<"object">>,
                         dir |-> inherited])
        @@ ("with_traceback" :> [py |-> "method_descriptor",
                                 qualname |-> <<"B", "a", "s", "e">> \o ExceptionName
                                                \o Dot \o WithTraceback,
                                 name |-> WithTraceback])
        @@ ("len" :> [py |-> "builtin_function_or_method", module |-> Builtins,
                      qualname |-> <<"l", "e", "n">>, name |-> <<"l", "e", "n">>])
        @@ ("E.m" :> Function(Q, <<"E", ".", "m">>, <<"m">>, SigBB))
        @@ [w EXCEPT !["A"].bases = IF kind = "inherited" THEN <<"Exception">> ELSE @,
                     !["A"].dir = CASE kind = "inherited" -> inherited
                                    [] kind = "member" -> m
                                    [] OTHER -> @,
                     !["p"].consts = IF kind = "const"
                                     THEN <<[name |-> <<"x">>, hint |-> "E"]>> ELSE @,
                     !["E"].dir = IF kind = "extern" THEN m ELSE @,
                     !["B"].dir = IF kind = "extern" THEN m ELSE @]

OutsiderWorlds == { WithOutsider(kind) : kind \in Outsiders }

(* A root package p with sub-modules p.o (class Bar) and p.s (class Foo,   *)
(* sub-module p.s.t).  p.s may import Bar, may hold a constant x: Bar, and *)
(* the modules may hold each other: p.o and p.s mutually, or p.s its       *)
(* parent p.  dir() lists the names sorted.                                *)
PO == <<"p", ".", "o">>

PS == <<"p", ".", "s">>

PST == <<"p", ".", "s", ".", "t">>

Foo == <<"F", "o", "o">>

Bar == <<"B", "a", "r">>

Cycles == {"none", "mutual", "parent"}

MkPackages(imports_bar, const_bar, cycle) ==
    LET dirS == (IF imports_bar THEN Entry(Bar, "Bar") ELSE <<>>)
                \o Entry(Foo, "Foo")
                \o (IF cycle = "mutual" THEN Entry(<<"o">>, "o") ELSE <<>>)
                \o (IF cycle = "parent" THEN Entry(<<"p">>, "p") ELSE <<>>)
                \o Entry(<<"t">>, "t")
        dirO == Entry(Bar, "Bar")
                \o (IF cycle = "mutual" THEN Entry(<<"s">>, "s") ELSE <<>>)
    IN  [x \in {"p", "o", "s", "t", "Foo", "Bar", "object"} |->
            CASE x = "p" -> [py |-> "module", name |-> P, consts |-> <<>>,
                             dir |-> Entry(<<"o">>, "o") \o Entry(<<"s">>, "s")]
              [] x = "o" -> [py |-> "module", name |-> PO, consts |-> <<>>, dir |-> dirO]
              [] x = "s" -> [py |-> "module", name |-> PS,
                             consts |-> IF const_bar
                                        THEN <<[name |-> <<"x">>, hint |-> "Bar"]>>
                                        ELSE <<>>,
                             dir |-> dirS]
              [] x = "t" -> [py |-> "module", name |-> PST, consts |-> <<>>, dir |-> <<>>]
              [] x = "Foo" -> Class(PS, Foo, <<"object">>, <<>>, <<>>)
              [] x = "Bar" -> Class(PO, Bar, <<"object">>, <<>>, <<>>)
              [] x = "object" -> [py |-> "type", module |-> Builtins,
                                  qualname |-> <<"object">>, name |-> <<"object">>,
                                  bases |-> <<>>, dir |-> <<>>]]

PackageWorlds ==
    { MkPackages(imports_bar, const_bar, cycle) :
        imports_bar \in BOOLEAN, const_bar \in BOOLEAN, cycle \in Cycles }

Worlds == ClassWorlds \cup ProtocolWorlds \cup AliasWorlds \cup TypeVarWorlds
          \cup NoReturnWorlds \cup OutsiderWorlds \cup PackageWorlds

\* the limit_fqn and max_depth a pass over a world of packages is given
Limits == {EmptyStr, PS, PS \o Dot \o Foo}

MaxDepths == {1, DefaultMaxDepth}

Programs ==
    { [world |-> w, limit_fqn |-> EmptyStr, max_depth |-> DefaultMaxDepth] :
        w \in ClassWorlds \cup ProtocolWorlds \cup AliasWorlds \cup TypeVarWorlds
              \cup NoReturnWorlds \cup OutsiderWorlds }
    \cup { [world |-> w, limit_fqn |-> l, max_depth |-> d] :
             w \in PackageWorlds, l \in Limits, d \in MaxDepths }

----------------------------------------------------------------------------
(* An extraction pass: api.plantuml builds the extractor and the space and *)
(* calls inspect_package on the root package; the caller then renders.     *)

NoCall == [op |-> "", q |-> EmptyStr, raised |-> "", ret |-> NoneVal, n |-> 0]

Init ==
    /\ space = BaseUMLSpace
    /\ last = NoCall
    /\ handed = {}
    /\ everAdded = {}
    /\ ncalls = 0
    /\ rendered = NotRendered
    /\ \E prog \in Programs, include_extern \in BOOLEAN :
          /\ world = prog.world
          /\ BaseExtractor_init(P, prog.limit_fqn, prog.max_depth, include_extern).raised = ""
          /\ extractor = BaseExtractor_init(P, prog.limit_fqn, prog.max_depth,
                                           include_extern).ret
    /\ stack = <<PackageFrame(world["p"])>>
    /\ status = Running

Machine == [space |-> space, extractor |-> extractor, stack |-> stack, status |-> status]

\* one step of the pass: the machine after it
Step(m) ==
    /\ space' = m.space
    /\ extractor' = m.extractor
    /\ stack' = m.stack
    /\ status' = m.status
    /\ everAdded' = everAdded \cup Keys(m.space.objs)
    /\ UNCHANGED <<world, last, handed, ncalls, rendered>>

At(fn, pc) ==
    /\ status.state = "running"
    /\ stack # <<>>
    /\ Top(stack).fn = fn
    /\ pc # "" => Top(stack).pc = pc

InspectPackage == At("inspect_package", "") /\ Step(inspect_package(world, Machine))

InspectClass == At("inspect_class", "entry") /\ Step(inspect_class_entry(world, Machine))

ExtractClassBases == At("inspect_class", "bases") /\ Step(extract_class_bases(world, Machine))

ExtractClassAttrs == At("inspect_class", "attrs") /\ Step(extract_class_attrs(world, Machine))

ExtractClassMethods == At("inspect_class", "methods") /\ Step(extract_class_methods(world, Machine))

ExtractClass == At("inspect_class", "finish") /\ Step(inspect_class_finish(world, Machine))

InspectMethod == At("inspect_method", "entry") /\ Step(inspect_method_entry(world, Machine))

ExtractMethodParams == At("inspect_method", "params") /\ Step(extract_method(world, Machine))

ExtractMethod == At("inspect_method", "finish") /\ Step(inspect_method_finish(world, Machine))

InspectGeneric == At("inspect_generic", "entry") /\ Step(inspect_generic_entry(world, Machine))

ExtractGenericArgs == At("inspect_generic", "args") /\ Step(extract_generic(world, Machine))

ExtractGeneric == At("inspect_generic", "finish") /\ Step(inspect_generic_finish(world, Machine))

\* api.space_to_file: the caller renders the space the pass has filled
Render ==
    /\ status.state = "done"
    /\ rendered.state = "none"
    /\ space' = to_puml(space).space
    /\ rendered' = to_puml(space).out
    /\ UNCHANGED <<world, last, handed, everAdded, ncalls, extractor, stack, status>>

Next ==
    \/ InspectPackage
    \/ InspectClass
    \/ ExtractClassBases
    \/ ExtractClassAttrs
    \/ ExtractClassMethods
    \/ ExtractClass
    \/ InspectMethod
    \/ ExtractMethodParams
    \/ ExtractMethod
    \/ InspectGeneric
    \/ ExtractGenericArgs
    \/ ExtractGeneric
    \/ Render

Spec == Init /\ [][Next]_vars

\* a pass over a world of packages, all in-domain, with the default max_depth;
\* it is one synchronous call, so a step that can be taken is taken
InitPackages ==
    /\ Init
    /\ world \in PackageWorlds
    /\ extractor.max_depth = DefaultMaxDepth /\ ~extractor.include_extern

NextPackages ==
    \/ InspectPackage
    \/ InspectClass
    \/ ExtractClassBases
    \/ ExtractClassAttrs
    \/ ExtractClassMethods
    \/ ExtractClass
    \/ Render

FairSpec == InitPackages /\ [][NextPackages]_vars /\ WF_vars(NextPackages)

----------------------------------------------------------------------------
(* A client of the graph space: any sequence of register, add_item,        *)
(* Reference.get and to_puml calls on one BaseUMLSpace.                    *)

Idle == [state |-> "idle", raised |-> "", at |-> ""]

NameA == P \o Dot \o <<"A">>

NameB == P \o Dot \o <<"B">>

Names == {NameA, NameB}

Other(q) == IF q = NameA THEN NameB ELSE NameA

\* a class node q built from the References the space holds at the time:
\* the other name as its base, itself and the other name as attribute hints
SampleClass(sp, q, empty) ==
    LET o == Other(q)
        ancestors == IF o \in DOMAIN sp.refs THEN <<sp.refs[o]>> ELSE <<>>
        attrs == (IF q \in DOMAIN sp.refs
                  THEN <<BaseUMLMember(q \o Sep \o <<"x">>, sp.refs[q])>> ELSE <<>>)
                 \o (IF o \in DOMAIN sp.refs
                     THEN <<BaseUMLMember(q \o Sep \o <<"_", "y">>, sp.refs[o])>> ELSE <<>>)
    IN  BaseUMLClass(q, "class", empty, FALSE, FALSE, ancestors, SplitModes(attrs),
                     SplitModes(<<>>))

\* a function node q whose parameter and return hints are the other name
SampleMethod(sp, q) ==
    LET o == Other(q)
    IN  BaseUMLMethod(q, <<"f">>, FALSE,
            <<BaseUMLParam(q \o Sep \o <<"x">>, sp.refs[o])>>,
            BaseUMLParam(q \o Sep \o ReturnName, sp.refs[o]))

\* a method node q bound to a class, its parameter and return hints the other name
SampleBoundMethod(sp, q) ==
    BaseUMLMethod(q, <<"B", ".", "f">>, FALSE,
        <<BaseUMLParam(q \o Sep \o <<"x">>, sp.refs[Other(q)])>>,
        BaseUMLParam(q \o Sep \o ReturnName, sp.refs[Other(q)]))

\* a builtin-container generic node q (list[...]), its argument the other name
SampleGeneric(sp, q) ==
    BaseUMLGeneric(q, "named_generic", FALSE, TRUE,
        <<BaseUMLParam(q \o Sep \o IdxStr(1), sp.refs[Other(q)])>>)

Items(sp) ==
    {SampleClass(sp, q, e) : q \in Names, e \in BOOLEAN}
        \cup {SampleMethod(sp, q) : q \in {n \in Names : Other(n) \in DOMAIN sp.refs}}
        \cup {SampleBoundMethod(sp, q) : q \in {n \in {NameB} : Other(n) \in DOMAIN sp.refs}}
        \cup {SampleGeneric(sp, q) : q \in {n \in {NameB} : Other(n) \in DOMAIN sp.refs}}
        \cup {sp.refs[q] : q \in DOMAIN sp.refs}

InitSpace ==
    /\ space = BaseUMLSpace
    /\ last = NoCall
    /\ handed = {}
    /\ everAdded = {}
    /\ ncalls = 0
    /\ rendered = NotRendered
    /\ world = MkWorld(<<>>, <<>>, <<"object">>, Absent, Absent)
    /\ extractor = BaseExtractor(P, EmptyStr, DefaultMaxDepth, FALSE)
    /\ stack = <<>>
    /\ status = Idle

Called(op, q, r) ==
    /\ ncalls' = ncalls + 1
    /\ last' = [op |-> op, q |-> q, raised |-> r.raised, ret |-> r.ret, n |-> ncalls + 1]
    /\ UNCHANGED <<world, extractor, stack, status>>

Register(q) ==
    /\ status.state = "idle"
    /\ ncalls < MaxCalls
    /\ LET r == register(space, q)
       IN  /\ space' = r.space
           /\ handed' = IF r.raised = "" THEN handed \cup {r.ret} ELSE handed
           /\ Called("register", q, r)
    /\ UNCHANGED <<everAdded, rendered>>

AddItem(item) ==
    /\ status.state = "idle"
    /\ ncalls < MaxCalls
    /\ LET r == add_item(space, item)
       IN  /\ space' = r.space
           /\ handed' = IF r.raised = "" THEN handed \cup {r.ret} ELSE handed
           /\ Called("add_item", item.full_qualname, r)
    /\ everAdded' = IF IsUMLObject(item) THEN everAdded \cup {item.full_qualname}
                    ELSE everAdded
    /\ UNCHANGED rendered

Get(ref) ==
    /\ status.state = "idle"
    /\ ncalls < MaxCalls
    /\ Called("get", ref.full_qualname, get(space, ref))
    /\ UNCHANGED <<space, handed, everAdded, rendered>>

ToPuml ==
    /\ status.state = "idle"
    /\ ncalls < MaxCalls
    /\ LET r == to_puml(space)
       IN  /\ space' = r.space
           /\ rendered' = r.out
           /\ Called("to_puml", EmptyStr, [raised |-> r.out.raised, ret |-> NoneVal])
    /\ UNCHANGED <<handed, everAdded>>

NextSpace ==
    \/ \E q \in Names : Register(q)
    \/ \E item \in Items(space) : AddItem(item)
    \/ \E ref \in handed : Get(ref)
    \/ ToPuml

SpecSpace == InitSpace /\ [][NextSpace]_vars

----------------------------------------------------------------------------
(* Properties of the graph space, checked under SpecSpace *)

\* this step is a call of op on the space
Calls(op) == ncalls' = ncalls + 1 /\ last'.op = op

\* C4: for every name q with no materialized node, a second register(q)
\* returns the very same Reference as the first and refs[q] still holds it
C4_RegisterIdempotent ==
    [][\A q \in Names :
          (Calls("register") /\ last'.q = q
              /\ q \in DOMAIN space.refs /\ q \notin Keys(space.objs))
          => (last'.ret = space.refs[q] /\ space'.refs[q] = space.refs[q])]_vars

\* C5: register(q) raises KeyError exactly when q has a materialized node, a
\* failed call leaves refs and objs as they were, and a call that succeeds
\* returns a Reference whose name is q
C5_RegisterDuplicate ==
    [][\A q \in Names :
          (Calls("register") /\ last'.q = q)
          => IF q \in Keys(space.objs)
             THEN /\ last'.raised = "KeyError"
                  /\ space'.refs = space.refs
                  /\ space'.objs = space.objs
             ELSE /\ last'.raised = ""
                  /\ IsRef(last'.ret)
                  /\ last'.ret.full_qualname = q
                  /\ space'.objs = space.objs]_vars

C5_Witness ==
    /\ last.op = "register"
    /\ last.raised = "KeyError"
    /\ last.q \in Keys(space.objs)
    /\ last.q \in DOMAIN space.refs

\* C6: add_item(node) stores the node under its name and returns a Reference
\* without raising, a new one when the name had none and the one already
\* registered otherwise
C6_AddItemReturns ==
    [][\A item \in Items(space) :
          (IsUMLObject(item) /\ AddItem(item))
          => /\ last'.raised = ""
             /\ IsRef(last'.ret)
             /\ last'.ret.full_qualname = item.full_qualname
             /\ item.full_qualname \in Keys(space'.objs)
             /\ Lookup(space'.objs, item.full_qualname) = item
             /\ item.full_qualname \in DOMAIN space.refs
                    => last'.ret = space.refs[item.full_qualname]]_vars

\* C7: Reference.get() raises KeyError while its name is registered and has
\* no node, and returns the stored node in every state after add_item has
\* stored one under the name
C7_GetAfterAddItem ==
    last.op = "get"
    => IF last.q \in everAdded
       THEN /\ last.raised = ""
            /\ last.q \in Keys(space.objs)
            /\ last.ret = Lookup(space.objs, last.q)
       ELSE last.raised = "KeyError"

\* C7 as the code has it: get() returns the node exactly while objs holds one
\* under the name; objs holds only nodes add_item stored, and a stored node
\* leaves objs only when to_puml discards it as empty
C7_GetWhileStored ==
    /\ last.op = "get"
       => IF last.q \in Keys(space.objs)
          THEN last.raised = "" /\ last.ret = Lookup(space.objs, last.q)
          ELSE last.raised = "KeyError"
    /\ Keys(space.objs) \subseteq everAdded
    /\ everAdded \ Keys(space.objs) # {} => rendered.state # "none"
    /\ last.op = "to_puml" => \A q \in Keys(space.objs) : ~Lookup(space.objs, q).empty

\* a get that returns the stored node after a to_puml has discarded another
C7_Witness ==
    /\ last.op = "get"
    /\ last.raised = ""
    /\ last.ret = Lookup(space.objs, last.q)
    /\ rendered.state # "none"
    /\ everAdded \ Keys(space.objs) # {}

\* C8: the text to_puml returns has exactly one block for each stored node
\* that is not empty and none for a node that is empty
C8_OneBlockPerNode ==
    [][(Calls("to_puml") /\ rendered'.state = "ok")
       => /\ \A q \in Keys(space.objs) :
                Cardinality({i \in 1..Len(rendered'.blocks) : rendered'.blocks[i].name = q})
                    = IF Lookup(space.objs, q).empty THEN 0 ELSE 1
          /\ \A i \in 1..Len(rendered'.blocks) :
                rendered'.blocks[i].name \in Keys(space.objs)]_vars

C8_Witness ==
    /\ last.op = "to_puml"
    /\ rendered.state = "ok"
    /\ Len(rendered.blocks) >= 1
    /\ everAdded \ Keys(space.objs) # {}

\* C9: every relation line to_puml emits has a source and a target that are
\* names of non-empty nodes left in objs; every other synthesized relation is
\* dropped
C9_RelationsBetweenNodes ==
    (last.op = "to_puml" /\ rendered.state = "ok")
    => /\ \A i \in 1..Len(rendered.relations) :
            LET r == rendered.relations[i]
            IN  /\ r.source \in Keys(space.objs)
                /\ r.target \in Keys(space.objs)
                /\ ~Lookup(space.objs, r.source).empty
                /\ ~Lookup(space.objs, r.target).empty
                /\ \E j \in 1..Len(rendered.synthesized) : rendered.synthesized[j] = r
       /\ \A j \in 1..Len(rendered.synthesized) :
            LET r == rendered.synthesized[j]
            IN  (r.source \in Keys(space.objs) /\ r.target \in Keys(space.objs))
                => \E i \in 1..Len(rendered.relations) : rendered.relations[i] = r

C9_Witness ==
    /\ last.op = "to_puml"
    /\ rendered.state = "ok"
    /\ Len(rendered.relations) >= 1
    /\ Len(rendered.synthesized) > Len(rendered.relations)

----------------------------------------------------------------------------
(* Properties of an extraction pass, checked under Spec *)

NameE == Q \o Dot \o <<"E">>

\* class cls of the program has an attribute annotated with hint
Hinted(cls, hint) ==
    /\ cls \in DOMAIN world
    /\ \E i \in 1..Len(world[cls].ann) : world[cls].ann[i].hint = hint

\* A and B have attributes typed as each other, or A one typed as itself
CyclicAttrs == (Hinted("A", "B") /\ Hinted("B", "A")) \/ Hinted("A", "'A'")

Count(q) == Cardinality({i \in 1..Len(space.objs) : space.objs[i].full_qualname = q})

\* the members of class node a whose hint is the Reference of a stored class
ClassHints(a) ==
    LET ms == Members(a.attributes) \o Members(a.methods)
    IN  SelectSeq(ms, LAMBDA x : /\ IsRef(x.hint)
                                 /\ x.hint.full_qualname \in Keys(space.objs)
                                 /\ Lookup(space.objs, x.hint.full_qualname).t = "class")

\* the pass has a step to take: the guard of one of its actions holds (every
\* action only assigns, so this is ENABLED Next up to the render)
CanStep ==
    \/ At("inspect_package", "")
    \/ \E pc \in {"entry", "bases", "attrs", "methods", "finish"} : At("inspect_class", pc)
    \/ \E pc \in {"entry", "params", "finish"} : At("inspect_method", pc)
    \/ \E pc \in {"entry", "args", "finish"} : At("inspect_generic", pc)

\* C1: when A and B have attributes typed as each other, or a class has one
\* typed as itself, the pass ends without an exception and then the space holds
\* exactly one node for A and exactly one for B
C1_CyclesTerminate ==
    CyclicAttrs
    => /\ status.state # "error"
       /\ status.state = "done" \/ CanStep
       /\ status.state = "done" => Count(NameA) = 1 /\ Count(NameB) = 1

C1_Witness ==
    /\ Hinted("A", "B") /\ Hinted("B", "A") /\ Hinted("A", "'A'")
    /\ status.state = "done"
    /\ Count(NameA) = 1 /\ Count(NameB) = 1

\* C2: after the pass, for every class node A with a member whose hint resolves
\* to a stored class B, the relations to_puml keeps hold a Dependency whose
\* source is A's own name and whose target is B's name
C2_DependencyFromClass ==
    rendered.state = "ok"
    => \A i \in 1..Len(space.objs) :
          space.objs[i].t = "class"
          => \A k \in 1..Len(ClassHints(space.objs[i])) :
                \E j \in 1..Len(rendered.relations) :
                    rendered.relations[j] =
                        BaseUMLRelation(space.objs[i].full_qualname,
                                        ClassHints(space.objs[i])[k].hint.full_qualname,
                                        DEPENDENCY)

\* C3: gen_relations returns at most one relation per (source, target), and a
\* class with several members typed as the same stored class has exactly one
\* edge to it, a Dependency from the class itself
C3_OneRelationPerPair ==
    rendered.state = "ok"
    => /\ \A i, j \in 1..Len(rendered.synthesized) :
            (i # j) => \/ rendered.synthesized[i].source # rendered.synthesized[j].source
                       \/ rendered.synthesized[i].target # rendered.synthesized[j].target
       /\ \A i \in 1..Len(space.objs) :
            space.objs[i].t = "class"
            => \A k, l \in 1..Len(ClassHints(space.objs[i])) :
                  (k # l /\ ClassHints(space.objs[i])[k].hint.full_qualname
                              = ClassHints(space.objs[i])[l].hint.full_qualname)
                  => Cardinality({j \in 1..Len(rendered.synthesized) :
                        rendered.synthesized[j] =
                            BaseUMLRelation(space.objs[i].full_qualname,
                                ClassHints(space.objs[i])[k].hint.full_qualname,
                                DEPENDENCY)}) = 1

\* B inherits from E, a class of another package, and include_extern is false
ExternBase ==
    /\ ~extractor.include_extern
    /\ "B" \in DOMAIN world /\ world["B"].bases = <<"E">>

\* C10: with include_extern false and an in-domain class inheriting from an
\* out-of-domain class Ext, the pass ends without an exception, and the diagram
\* has no block for Ext and no Inheritance or Implementation relation to Ext,
\* neither synthesized nor emitted
C10_ExternBaseOmitted ==
    ExternBase
    => /\ status.state # "error"
       /\ status.state \in {"done"} \/ CanStep
       /\ rendered.state = "ok"
          => /\ \A i \in 1..Len(rendered.blocks) : rendered.blocks[i].name # NameE
             /\ \A j \in 1..Len(rendered.synthesized) :
                    ~(/\ rendered.synthesized[j].target = NameE
                      /\ rendered.synthesized[j].relation \in {INHERITANCE, IMPLEMENTATION})
             /\ \A j \in 1..Len(rendered.relations) :
                    ~(/\ rendered.relations[j].target = NameE
                      /\ rendered.relations[j].relation \in {INHERITANCE, IMPLEMENTATION})

C10_Witness ==
    /\ ExternBase
    /\ rendered.state = "ok"
    /\ NameE \in DOMAIN space.refs
    /\ \E i \in 1..Len(space.objs) :
          /\ space.objs[i].full_qualname = NameB
          /\ \E a \in 1..Len(space.objs[i].ancestors) :
                space.objs[i].ancestors[a].full_qualname = NameE
    /\ \E i \in 1..Len(rendered.blocks) : rendered.blocks[i].name = NameB

----------------------------------------------------------------------------
(* Claims about module traversal under limit_fqn and max_depth (Spec).     *)

NameFoo == PS \o Dot \o Foo

\* C11: with a non-empty limit_fqn, every node the traversal stores in the
\* space has a qualified name starting with limit_fqn, and so has every block
\* of the rendered diagram
C11_NodesInsidePrefix ==
    extractor.limit_fqn # EmptyStr
    => /\ \A i \in 1..Len(space.objs) :
            StartsWith(space.objs[i].full_qualname, extractor.limit_fqn)
       /\ rendered.state = "ok"
          => \A i \in 1..Len(rendered.blocks) :
                StartsWith(rendered.blocks[i].name, extractor.limit_fqn)

\* the stored class nodes that ancestor a of a class node resolves to
Resolved(a) ==
    {k \in 1..Len(space.objs) :
        space.objs[k].full_qualname = a.full_qualname /\ space.objs[k].t = "class"}

\* the synthesized relations from source to target of one of the kinds
Edges(rels, source, target, kinds) ==
    {j \in 1..Len(rels) : /\ rels[j].source = source
                          /\ rels[j].target = target
                          /\ rels[j].relation \in kinds}

C14_LayerWithinMaxDepth == extractor.layer <= extractor.max_depth

\* the modules of the world hold each other: p.o and p.s, or p.s its parent p
CyclicModules ==
    /\ "s" \in DOMAIN world
    /\ \E i \in 1..Len(world["s"].dir) : world["s"].dir[i].obj \in {"o", "p"}

\* C15: every module traversal pass ends: it completes, or it fails with an
\* exception, also when the modules hold each other as members
C15_PassEnds == <>(status.state \in {"done", "error"})

\* a pass over modules holding each other has ended, by exhausting the stack
C15_Witness ==
    /\ CyclicModules
    /\ status.state = "error" /\ status.raised = "RecursionError"
    /\ extractor.layer > extractor.max_depth

\* C19: with domain p and limit_fqn the qualified name of class Foo of the
\* sub-module p.s, a pass that completes has reached p.s and stored a node for
\* p.s.Foo
C19_LimitToOneClass ==
    (extractor.limit_fqn = NameFoo /\ status.state = "done")
    => NameFoo \in Keys(space.objs)

\* C20: in every state of a pass, register has been called exactly once for
\* every name that has a Reference (the calls made are as many as the names
\* registered), and the pass has not failed with the KeyError of a duplicate
\* registration
C20_RegisteredOnce ==
    /\ space.next - 1 = Cardinality(DOMAIN space.refs)
    /\ status.raised # "KeyError"

\* the pass is done and met class A on three paths: as a member of p, as the
\* base of B and as the hint of an attribute of B
C20_Witness ==
    /\ status.state = "done"
    /\ "B" \in DOMAIN world /\ world["B"].bases = <<"A">> /\ Hinted("B", "A")
    /\ NameA \in DOMAIN space.refs /\ NameA \in Keys(space.objs)
    /\ \E i \in 1..Len(space.objs) :
          /\ space.objs[i].full_qualname = NameB
          /\ space.objs[i].ancestors = <<space.refs[NameA]>>
          /\ \E k \in 1..Len(Members(space.objs[i].attributes)) :
                Members(space.objs[i].attributes)[k].hint = space.refs[NameA]

----------------------------------------------------------------------------
(* The pure functions, each applied to one input of a bounded set: the     *)
(* constructor's check of limit_fqn and rtypes.check_raw_type.  `last`     *)
(* holds the call made: its input and what it raised or returned.          *)

MaxLen == 4

Alphabet == {"p", ".", "s", ":"}

\* the strings over Alphabet of length at most n
RECURSIVE Strs(_)
Strs(n) ==
    IF n = 0 THEN {EmptyStr}
    ELSE Strs(n - 1) \cup {Append(x, c) : x \in {y \in Strs(n - 1) : Len(y) = n - 1},
                                          c \in Alphabet}

Domains == {P, PS}

\* the reflected entities: what inspect says the entity is (py), and which of
\* the attributes __args__, __name__, __constraints__, __parameters__,
\* __bound__ and __forward_arg__ it has, with what value
Features ==
    [args : BOOLEAN, name : {"", "T", "Any"}, constraints : {"", "()", "(B,)"},
     parameters : {"", "()", "(B,)"}, bound : {"", "None", "B"}, forward_arg : BOOLEAN]

Field(has, name, value) == IF has THEN name :> value ELSE <<>>

Entity(py, f) ==
    [py |-> py]
    @@ Field(f.args, "args", <<"B">>)
    @@ Field(f.name # "", "name", IF f.name = "Any" THEN <<"A", "n", "y">> ELSE <<"T">>)
    @@ Field(f.constraints # "", "constraints",
             IF f.constraints = "()" THEN <<>> ELSE <<"B">>)
    @@ Field(f.parameters # "", "parameters",
             IF f.parameters = "()" THEN <<>> ELSE <<"B">>)
    @@ Field(f.bound # "", "bound", IF f.bound = "None" THEN NoneVal ELSE [t |-> "B"])
    @@ Field(f.forward_arg, "forward_arg", <<"A">>)

\* an object of any class may carry any of the attributes; a class, a function,
\* a method and a module have a name; X | Y has arguments and no name; None
\* has none of the attributes
Entities ==
    { Entity("object", f) : f \in Features }
    \cup { Entity(py, f) : py \in {"type", "function", "method", "module"},
                           f \in {g \in Features : g.name # "" /\ ~g.forward_arg
                                                    /\ g.constraints = "" /\ g.bound = ""} }
    \cup { Entity("union", f) : f \in {g \in Features : g.args /\ g.name = ""
                                                         /\ g.constraints = "" /\ g.bound = ""
                                                         /\ ~g.forward_arg} }
    \cup { [py |-> "NoneType"] }

\* the call to make: a constructor call with its domain and limit_fqn, or
\* check_raw_type with an entity
PureInputs ==
    { [op |-> "", fn |-> "BaseExtractor", domain |-> domain, q |-> limit_fqn] :
        domain \in Domains, limit_fqn \in Strs(MaxLen) }
    \cup { [op |-> "", fn |-> "check_raw_type", raw |-> raw] : raw \in Entities }

InitPure ==
    /\ space = BaseUMLSpace
    /\ last \in PureInputs
    /\ handed = {}
    /\ everAdded = {}
    /\ ncalls = 0
    /\ rendered = NotRendered
    /\ world = <<>>
    /\ extractor = NoneVal
    /\ stack = <<>>
    /\ status = Running

\* BaseExtractor(domain, limit_fqn, max_depth, include_extern)
Construct ==
    /\ last.op = "" /\ last.fn = "BaseExtractor"
    /\ LET r == BaseExtractor_init(last.domain, last.q, DefaultMaxDepth, FALSE)
       IN  /\ last' = [last EXCEPT !.op = "BaseExtractor"] @@ r
           /\ extractor' = r.ret
    /\ UNCHANGED <<space, handed, everAdded, ncalls, rendered, world, stack, status>>

\* rtypes.check_raw_type(raw)
CheckRawType ==
    /\ last.op = "" /\ last.fn = "check_raw_type"
    /\ last' = [last EXCEPT !.op = "check_raw_type"]
                @@ [raised |-> IF check_raw_type(last.raw) = "" THEN "ValueError" ELSE "",
                    ret |-> check_raw_type(last.raw)]
    /\ UNCHANGED <<space, handed, everAdded, ncalls, rendered, world, extractor, stack,
                   status>>

NextPure ==
    \/ Construct
    \/ CheckRawType

SpecPure == InitPure /\ [][NextPure]_vars

Constructed == last.op = "BaseExtractor"

\* C13 as claimed: the constructor raises ValueError exactly when limit_fqn is
\* non-empty and, cut at its first "::", is not a prefix of domain
C13_LimitPrefixOfDomain ==
    Constructed
    => (last.raised = "ValueError"
        <=> last.q # EmptyStr /\ ~StartsWith(last.domain, BeforeSep(last.q)))

\* C13 amended: the constructor raises ValueError exactly when limit_fqn is
\* non-empty and, cut at its first "::", does not begin with domain (it is not
\* domain followed by some suffix); otherwise it returns an extractor that
\* keeps the cut limit_fqn
C13_DomainPrefixOfLimit ==
    Constructed
    => LET Prefix(k) == SubSeq(last.q, 1, k)
           cuts == {k \in 0..Len(last.q) :
                      /\ StartsWith(last.q, Prefix(k) \o Sep)
                      /\ \A i \in 1..k : SubSeq(Prefix(k) \o <<":">>, i, i + 1) # Sep}
           cut == IF cuts = {} THEN last.q ELSE Prefix(CHOOSE k \in cuts : TRUE)
           extends == \E k \in 0..Len(cut) : cut = last.domain \o SubSeq(cut, k + 1, Len(cut))
       IN  /\ last.raised \in {"", "ValueError"}
           /\ last.raised = "ValueError" <=> (last.q # EmptyStr /\ ~extends)
           /\ last.raised = "" => extractor.limit_fqn = cut /\ extractor.domain = last.domain

\* limit_fqn is a proper prefix of domain and the constructor raises
C13_Witness ==
    /\ Constructed
    /\ last.domain = PS /\ last.q = P
    /\ last.raised = "ValueError"

Classified == last.op = "check_raw_type"

Check(kind, holds) == [kind |-> kind, holds |-> holds]

\* the checks in their priority order; nameless is what makes an entity with
\* generic arguments and no name a UnionType
Checks(r, nameless) ==
    << Check("class", r.py = "type"),
       Check("method", r.py \in {"function", "method"}),
       Check("module", r.py = "module"),
       Check("named_generic", Has(r, "args") /\ Has(r, "name")),
       Check("types_union", Has(r, "args") /\ ~Has(r, "name") /\ nameless),
       Check("typevar", \/ Has(r, "constraints") /\ r.constraints # <<>>
                        \/ Has(r, "parameters") /\ r.parameters # <<>>
                        \/ Has(r, "bound") /\ r.bound # NoneVal),
       Check("forward", Has(r, "forward_arg")),
       Check("none", r.py = "NoneType"),
       Check("any", Has(r, "name") /\ r.name \in {<<"A", "n", "y">>, <<"a", "n", "y">>}) >>

\* the call returned the kind of the first check that holds, or raised
\* ValueError when none holds
FirstMatch(checks) ==
    LET first == {i \in 1..Len(checks) :
                    checks[i].holds /\ \A j \in 1..(i - 1) : ~checks[j].holds}
    IN  IF first = {} THEN last.raised = "ValueError"
        ELSE last.raised = "" /\ \A i \in first : last.ret = checks[i].kind

\* C16 as claimed: check_raw_type returns the kind of the first check that
\* matches, in the order class, callable, module, generic, type variable,
\* forward reference, none, any; an entity with generic arguments is a
\* NamedGenericType when it has a name and a UnionType when it has none; an
\* entity matching no check fails with ValueError
C16_NamelessGenericIsUnion ==
    Classified => FirstMatch(Checks(last.raw, TRUE))

\* C16 amended: as claimed, except that an entity with generic arguments and
\* no name is a UnionType only when it is a types.UnionType (X | Y); any other
\* such entity goes on to the later checks
C16_FirstMatchingCheck ==
    Classified => FirstMatch(Checks(last.raw, last.raw.py = "union"))

\* an entity that is both a generic (Box[T]: arguments and a name) and a type
\* variable by its parameters was classified
C16_Witness ==
    /\ Classified
    /\ last.raw.py = "object"
    /\ Has(last.raw, "args") /\ Has(last.raw, "name")
    /\ Has(last.raw, "parameters") /\ last.raw.parameters # <<>>
    /\ last.ret = "named_generic"

----------------------------------------------------------------------------
(* Claims about relation synthesis over the nodes a client stored          *)
(* (SpecSpace).                                                            *)

\* a node with no independent identity: a builtin-container generic, or a
\* method bound to a class
NoIdentity(obj) ==
    \/ obj.t = "generic" /\ obj.is_builtin
    \/ obj.t = "method" /\ obj.is_bounded

\* C17: for every stored node with no independent identity, a builtin-container
\* generic or a bound method, the relation synthesis gen_relations makes for
\* it, without a source, fails with ValueError
C17_MissingSourceRaises ==
    \A i \in 1..Len(space.objs) :
        NoIdentity(space.objs[i])
        => FirstRaise(gen_object_rels(space.objs, space.objs[i])) = "ValueError"

\* the hint of member or parameter x, or the base a, resolves to a stored node
ResolvedHint(x) == ~IsRef(x.hint) \/ x.hint.full_qualname \in Keys(space.objs)

ResolvedBase(a) == ~IsRef(a) \/ a.full_qualname \in Keys(space.objs)

ResolvedMembers(d) ==
    [public |-> SelectSeq(d.public, ResolvedHint),
     protected |-> SelectSeq(d.protected, ResolvedHint),
     private |-> SelectSeq(d.private, ResolvedHint)]

\* node obj without its bases, members, parameters and arguments that are
\* unresolved References
Stripped(obj) ==
    CASE obj.t = "class" ->
            [obj EXCEPT !.ancestors = SelectSeq(@, ResolvedBase),
                        !.attributes = ResolvedMembers(@),
                        !.methods = ResolvedMembers(@)]
      [] obj.t = "method" ->
            [obj EXCEPT !.params = SelectSeq(@, ResolvedHint),
                        !.returns = IF @ # NoneVal /\ ~ResolvedHint(@) THEN NoneVal ELSE @]
      [] obj.t = "generic" -> [obj EXCEPT !.args = SelectSeq(@, ResolvedHint)]

\* C18: an unresolved Reference never fails relation synthesis and yields no
\* edge: gen_relations never raises KeyError, every edge it emits leads to a
\* stored node, and for every stored node it emits exactly what it emits for
\* the node without its unresolved bases, member hints and parameter hints
C18_UnresolvedSkipped ==
    /\ FirstRaise(gen_relations(space.objs)) # "KeyError"
    /\ \A j \in 1..Len(gen_relations(space.objs)) :
          gen_relations(space.objs)[j].t = "rel"
          => gen_relations(space.objs)[j].target \in Keys(space.objs)
    /\ \A i \in 1..Len(space.objs) :
          gen_object_rels(space.objs, space.objs[i])
              = gen_object_rels(space.objs, Stripped(space.objs[i]))

\* to_puml has synthesized the relations of a class whose base and one
\* attribute hint are unresolved and another attribute hint is not: it did
\* not fail and the edge of the resolved hint is there
C18_Witness ==
    /\ last.op = "to_puml" /\ last.raised = ""
    /\ \E i \in 1..Len(space.objs) :
          /\ space.objs[i].t = "class"
          /\ \E a \in 1..Len(space.objs[i].ancestors) :
                ~ResolvedBase(space.objs[i].ancestors[a])
          /\ \E k \in 1..Len(Members(space.objs[i].attributes)) :
                ~ResolvedHint(Members(space.objs[i].attributes)[k])
          /\ \E k \in 1..Len(Members(space.objs[i].attributes)) :
                /\ ResolvedHint(Members(space.objs[i].attributes)[k])
                /\ \E j \in 1..Len(rendered.synthesized) :
                      /\ rendered.synthesized[j].source
                            = Members(space.objs[i].attributes)[k].full_qualname
                      /\ rendered.synthesized[j].target
                            = Members(space.objs[i].attributes)[k].hint.full_qualname

----------------------------------------------------------------------------
(* Nested references: what a call made with next_layer set expands.        *)

\* the frames of the calls that were made with next_layer set
NestedFrames ==
    {i \in 1..Len(stack) : stack[i].fn # "inspect_package" /\ stack[i].next_layer}

\* a class that is not built-in, or a callable that is not a member of a class:
\* the entities inspect_class and inspect_method register (lines 380-382, 682-685)
Addressable(frame) ==
    \/ frame.fn = "inspect_class" /\ frame.rtype = "class" /\ ~check_builtins(frame.raw)
    \/ /\ frame.fn = "inspect_method"
       /\ frame.raw.py \in {"function", "method"}
       /\ ~Contains(frame.raw.qualname, ".")

\* the frame is in one of the loops over bases, members, parameters or arguments
Expanding(frame) == frame.pc \in {"bases", "attrs", "methods", "params", "args"}

\* C21 as stated: no call made with next_layer set expands the entity, whatever
\* its kind: it never reaches the loops over bases, members, parameters, return
\* type or generic arguments
C21_NestedNeverExpanded == \A i \in NestedFrames : ~Expanding(stack[i])

\* C21 amended: a call made with next_layer set on a class that is not built-in
\* or on an unbound callable returns at its entry: it never reaches a loop and
\* makes no call of its own
C21_AddressableNestedNotExpanded ==
    \A i \in NestedFrames :
        Addressable(stack[i]) => stack[i].pc = "entry" /\ i = Len(stack)

\* a class under expansion holds the Reference a nested call on a class returned
C21_Witness ==
    \E i \in 1..Len(stack) :
        /\ stack[i].fn = "inspect_class"
        /\ \E k \in 1..Len(stack[i].attrs) : IsRef(stack[i].attrs[k].hint)
        /\ \E k \in 1..Len(stack[i].ancestors) : IsRef(stack[i].ancestors[k])

----------------------------------------------------------------------------
(* Generic aliases that refer back to themselves *)

\* C22: the extraction of a generic's arguments is bounded: it never runs the
\* call stack out, also for an alias one of whose arguments is a forward
\* reference to the alias itself or to an alias that refers back to it
C22_GenericRecursionBounded ==
    ~(status.at = "inspect_generic" /\ status.raised = "RecursionError")

----------------------------------------------------------------------------
(* Classes reached more than once as top-level members *)

\* C23: a class that has a node in the space is not expanded again: no
\* inspect_class call is in its loops over bases, attributes and methods, or
\* about to store its node, while the space already holds a node of that name
C23_ExpandedOnce ==
    \A i \in 1..Len(stack) :
        stack[i].fn = "inspect_class" /\ stack[i].pc # "entry"
        => stack[i].full_qualname \notin Keys(space.objs)

----------------------------------------------------------------------------
(* Type variables *)

NameT == P \o Dot \o <<"T">>

\* the package holds an entity check_raw_type classifies as a type variable
HasTypeVar == "T" \in DOMAIN world /\ check_raw_type(world["T"]) = "typevar"

\* C24: a pass over a package that holds a type variable, as a member or as
\* the hint of an attribute, a parameter or a generic argument, does not fail
\* with the ValueError of an unsupported kind, and once it has completed the
\* space holds a Reference under the type variable's qualified name
C24_TypeVarRegistered ==
    HasTypeVar
    => /\ status.raised # "ValueError"
       /\ status.state = "done" => NameT \in DOMAIN space.refs

----------------------------------------------------------------------------
(* What the extractor registers and stores *)

\* the entities of the program that are callables bound to a class, or
\* parameterized or union generics
BoundOrGeneric ==
    {x \in DOMAIN world :
        \/ check_raw_type(world[x]) \in {"named_generic", "types_union"}
        \/ check_raw_type(world[x]) = "method" /\ Contains(world[x].qualname, ".")}

\* C25: no key of refs or of objs is the qualified name of a class-bound
\* callable or of a parameterized or union generic, and every stored node is a
\* class or an unbound callable
C25_OnlyAddressableKeys ==
    /\ \A x \in BoundOrGeneric :
          get_full_qualname(world[x], check_raw_type(world[x]))
              \notin (DOMAIN space.refs \cup Keys(space.objs))
    /\ \A i \in 1..Len(space.objs) :
          \/ space.objs[i].t = "class"
          \/ space.objs[i].t = "method" /\ ~space.objs[i].is_bounded

\* the pass is over; it has stored a class with a bound method one of whose
\* parameters is hinted by a parameterized generic
C25_Witness ==
    /\ status.state = "done"
    /\ BoundOrGeneric # {}
    /\ \E i \in 1..Len(space.objs) :
          /\ space.objs[i].t = "class"
          /\ \E k \in 1..Len(Members(space.objs[i].methods)) :
                LET meth == Members(space.objs[i].methods)[k].hint
                IN  /\ meth.t = "method" /\ meth.is_bounded
                    /\ \E j \in 1..Len(meth.params) : meth.params[j].hint.t = "generic"

----------------------------------------------------------------------------
(* Entities from outside the root domain *)

\* the entity's domain is not inside the root domain (a built-in method has
\* no __module__ at all)
Outside(raw) == ~Has(raw, "module") \/ ~StartsWith(raw.module, extractor.domain)

\* the machine after the entry step of the call on top of the stack
EntryStep ==
    CASE Top(stack).fn = "inspect_class" -> inspect_class_entry(world, Machine)
      [] Top(stack).fn = "inspect_method" -> inspect_method_entry(world, Machine)
      [] Top(stack).fn = "inspect_generic" -> inspect_generic_entry(world, Machine)

\* C26: with include_extern false, no call made on an entity from outside the
\* root domain raises: the call returns a Reference or goes on to build the
\* placeholder
C26_DomainExclusionNeverRaises ==
    /\ ~extractor.include_extern
    /\ status.state = "running" /\ stack # <<>>
    /\ Top(stack).fn # "inspect_package" /\ Top(stack).pc = "entry"
    /\ Outside(Top(stack).raw)
    => EntryStep.status.raised = ""

----------------------------------------------------------------------------
(* The relations of an unbound callable *)

\* C27: every relation synthesized for a stored unbound callable, from its
\* parameters and its return hint, has the callable's own qualified name as
\* its source
C27_CallableIsSource ==
    \A i \in 1..Len(space.objs) :
        space.objs[i].t = "method" /\ ~space.objs[i].is_bounded
        => \A j \in 1..Len(gen_object_rels(space.objs, space.objs[i])) :
              LET rel == gen_object_rels(space.objs, space.objs[i])[j]
              IN  rel.t = "rel" => rel.source = space.objs[i].full_qualname

----------------------------------------------------------------------------
(* Nodes and their References *)

\* C28: whatever calls of register and add_item were made, failed ones
\* included, every name that has a node in objs has a Reference in refs
C28_NodesHaveRefs == Keys(space.objs) \subseteq DOMAIN space.refs

----------------------------------------------------------------------------
(* Placeholders *)

\* C29: no node of the space is a placeholder, in any state of a pass and
\* after it: an entity from outside the root domain, with include_extern
\* false, has at most a Reference and no node, and the pruning of to_puml
\* takes nothing away
C29_NoStoredPlaceholder ==
    /\ \A i \in 1..Len(space.objs) : ~space.objs[i].empty
    /\ ~extractor.include_extern
       => \A q \in Keys(space.objs) : StartsWith(q, extractor.domain)
    /\ discard_empty(space.objs) = space.objs

\* the pass met the out-of-domain class E as the hint of a constant, where no
\* domain filter applies, and built its placeholder: E has a Reference and no
\* node, and to_puml has rendered the space
C29_Witness ==
    /\ "len" \in DOMAIN world /\ world["p"].consts # <<>>
    /\ ~extractor.include_extern
    /\ status.state = "done" /\ rendered.state = "ok"
    /\ NameE \in DOMAIN space.refs
    /\ NameE \notin Keys(space.objs)
    /\ space.objs # <<>>

----------------------------------------------------------------------------
(* Rendering the space of a completed pass *)

\* C30: to_puml on the space of a pass that completed returns the text and
\* raises nothing, also when a stored callable or a method member of a stored
\* class has no return
C30_RenderNeverRaises == rendered.state # "error"

====
